---- MODULE Spec2Model ----
(***************************************************************************)
(* Multi-level response cache (CacheService) of the manga API:            *)
(* key derivation, L1/L2 entry store, codec, LRU eviction, invalidation,  *)
(* expiry sweep, warm queue, statistics and the Express cache middleware. *)
(*                                                                         *)
(* Strings that the code inspects character by character (cache keys,     *)
(* query parameter names, patterns, serialized JSON) are sequences of     *)
(* one-character strings.  JavaScript values are tagged records: JArr for *)
(* an array of numbers, JStr for a string, JNull for null/undefined.      *)
(***************************************************************************)
EXTENDS Integers, Sequences, FiniteSets, TLC

VARIABLES
    l1Cache,        \* this.l1Cache : Map, as the sequence of its [key, item] pairs in insertion order
    l2Cache,        \* this.l2Cache : Map, same representation
    alias,          \* keys whose L1 and L2 items are one and the same object (left by a promotion)
    stats,          \* this.stats
    isWarming,      \* this.isWarming
    warmingQueue,   \* this.warmingQueue
    now,            \* Date.now(), in milliseconds since construction
    nops,           \* number of operations performed so far
    last,           \* the last operation, its arguments and what it returned
    pending,        \* requests that missed and wait for downstream to call res.json
    genIn,          \* generateKey alone: its arguments
    genOut,         \* generateKey alone: <<>> before the call, <<key>> after it
    cleanupTimer,   \* this.cleanupTimer: <<>> when it is null, <<id>> when it is a timer
    timers          \* the interval timers that are scheduled, by id

vars == <<l1Cache, l2Cache, alias, stats, isWarming, warmingQueue, now, nops, last,
          pending, genIn, genOut, cleanupTimer, timers>>

-----------------------------------------------------------------------------
(* Bounds of the exploration *)

MaxOps == 3         \* operations per behaviour

\* the number of requests and answers of a behaviour of the adapter
MaxMwOps == 4
MaxTime == 2        \* the clock stops here
MaxParams == 3      \* query parameters per call of generateKey
MaxLookups == 4     \* hits, and misses, before a call of getStats

(* Configuration of the instance under check (constructor options), scaled down *)
maxSize == 2                \* options.maxSize
compressionThreshold == 3   \* options.compressionThreshold, in characters
defaultTTL == 300000
enableCompression == TRUE

-----------------------------------------------------------------------------
(* JavaScript values *)

JArr(s) == [arr |-> s]
JStr(s) == [str |-> s]
JNull == [null |-> TRUE]
JNum(n) == [num |-> n]
JUndefined == [undefined |-> TRUE]

IsArr(v) == DOMAIN v = {"arr"}
IsStr(v) == DOMAIN v = {"str"}
IsNum(v) == DOMAIN v = {"num"}

\* ToBoolean(v): null, undefined, 0 and the empty string are falsy; arrays are truthy
Truthy(v) ==
    IF IsArr(v) THEN TRUE
    ELSE IF IsStr(v) THEN v.str # <<>>
    ELSE IF IsNum(v) THEN v.num # 0
    ELSE FALSE

Digits == <<"0", "1", "2", "3", "4", "5", "6", "7", "8", "9">>

DigitChar(n) == Digits[n + 1]

IsDigitChar(c) == \E n \in 0..9 : Digits[n + 1] = c

DigitValue(c) == CHOOSE n \in 0..9 : Digits[n + 1] = c

RECURSIVE JoinChars(_, _)
\* Array.prototype.join: the parts separated by sep
JoinChars(parts, sep) ==
    IF parts = <<>> THEN <<>>
    ELSE IF Len(parts) = 1 THEN parts[1]
    ELSE parts[1] \o sep \o JoinChars(Tail(parts), sep)

\* JSON.stringify of a one-digit number, "0", of a string without characters
\* to escape, in quotes, or of an array of one-digit numbers, "[1,2]"
JSONstringify(v) ==
    IF IsNum(v) THEN <<DigitChar(v.num)>>
    ELSE IF IsStr(v) THEN <<"\"">> \o v.str \o <<"\"">>
    ELSE <<"[">> \o JoinChars([i \in 1..Len(v.arr) |-> <<DigitChar(v.arr[i])>>], <<",">>)
             \o <<"]">>

RECURSIVE ParseElements(_)
\* the elements of "d,d,...,d"; <<-1>> marks a syntax error
ParseElements(s) ==
    IF s = <<>> \/ ~IsDigitChar(s[1]) THEN <<-1>>
    ELSE IF Len(s) = 1 THEN <<DigitValue(s[1])>>
    ELSE IF s[2] # "," THEN <<-1>>
    ELSE LET rest == ParseElements(SubSeq(s, 3, Len(s)))
         IN  IF rest = <<-1>> THEN <<-1>> ELSE <<DigitValue(s[1])>> \o rest

\* whether JSON.parse(s) succeeds (it throws SyntaxError otherwise)
JSONparses(s) ==
    /\ Len(s) >= 2
    /\ s[1] = "["
    /\ s[Len(s)] = "]"
    /\ \/ Len(s) = 2
       \/ ParseElements(SubSeq(s, 2, Len(s) - 1)) # <<-1>>

\* JSON.parse of the text of an array of one-digit numbers
JSONparse(s) ==
    IF Len(s) = 2 THEN JArr(<<>>) ELSE JArr(ParseElements(SubSeq(s, 2, Len(s) - 1)))

\* CacheService.compress
compress(value) == JStr(JSONstringify(value))

\* CacheService.decompress
decompress(compressed) == JSONparse(compressed.str)

-----------------------------------------------------------------------------
(* Key derivation *)

\* the characters of keys and parameter names, in the order of their UTF-16 code units
CodeUnitOrder ==
    <<"&", "/", "0", "1", "2", "3", "4", "5", "6", "7", "8", "9", "=", "?", "_",
      "a", "b", "c", "e", "h", "i", "m", "n", "o", "p", "s", "t", "x">>

CodeUnit(ch) == CHOOSE i \in 1..Len(CodeUnitOrder) : CodeUnitOrder[i] = ch

RECURSIVE StringLess(_, _)
\* a < b on strings: by code units, a proper prefix first
StringLess(a, b) ==
    IF b = <<>> THEN FALSE
    ELSE IF a = <<>> THEN TRUE
    ELSE IF a[1] # b[1] THEN CodeUnit(a[1]) < CodeUnit(b[1])
    ELSE StringLess(Tail(a), Tail(b))

RECURSIVE insertSorted(_, _)
insertSorted(sorted, x) ==
    IF sorted = <<>> THEN <<x>>
    ELSE IF StringLess(x, sorted[1]) THEN <<x>> \o sorted
    ELSE <<sorted[1]>> \o insertSorted(Tail(sorted), x)

RECURSIVE sortInto(_, _)
sortInto(sorted, rest) ==
    IF rest = <<>> THEN sorted ELSE sortInto(insertSorted(sorted, rest[1]), Tail(rest))

\* (variant: the keys are left in the order of the object)
unsorted(strings) == strings

\* Array.prototype.sort() of strings
sort(strings) == sortInto(<<>>, strings)

RECURSIVE NumberToString(_)
\* String(n) of a natural number
NumberToString(n) ==
    IF n < 10 THEN <<DigitChar(n)>> ELSE NumberToString(n \div 10) \o <<DigitChar(n % 10)>>

\* `${v}` of a number or a string
TemplateString(v) == IF IsNum(v) THEN NumberToString(v.num) ELSE v.str

\* An object is the sequence of its [name, value] properties, names distinct
Property(obj, name) == obj[CHOOSE i \in 1..Len(obj) : obj[i].name = name].value

\* delete obj[name]
deleteProperty(obj, name) == SelectSeq(obj, LAMBDA p : p.name # name)

\* Object.keys(obj)
ObjectKeys(obj) == [i \in 1..Len(obj) |-> obj[i].name]

UnderscoreT == <<"_", "t">>
Timestamp == <<"t", "i", "m", "e", "s", "t", "a", "m", "p">>
Nocache == <<"n", "o", "c", "a", "c", "h", "e">>

\* CacheService.generateKey
generateKey(url, params) ==
    LET cacheParams == deleteProperty(deleteProperty(deleteProperty(params, UnderscoreT),
                                                     Timestamp), Nocache)
        keys == SelectSeq(sort(ObjectKeys(cacheParams)),
                          LAMBDA k : Property(cacheParams, k) # JNull)
        pairs == [i \in 1..Len(keys) |->
                    keys[i] \o <<"=">> \o TemplateString(Property(cacheParams, keys[i]))]
        paramsString == JoinChars(pairs, <<"&">>)
    IN  url \o (IF paramsString # <<>> THEN <<"?">> \o paramsString ELSE <<>>)

-----------------------------------------------------------------------------
(* Map: the [key, item] pairs in insertion order *)

MapHas(m, k) == \E i \in 1..Len(m) : m[i].key = k

MapIndex(m, k) == CHOOSE i \in 1..Len(m) : m[i].key = k

MapGet(m, k) == m[MapIndex(m, k)].item

\* Map.prototype.set: an existing key keeps its place, a new key goes last
MapSet(m, k, e) ==
    IF MapHas(m, k)
    THEN [m EXCEPT ![MapIndex(m, k)] = [key |-> k, item |-> e]]
    ELSE Append(m, [key |-> k, item |-> e])

\* Map.prototype.delete
MapDelete(m, k) == SelectSeq(m, LAMBDA p : p.key # k)

MapKeys(m) == {m[i].key : i \in 1..Len(m)}

-----------------------------------------------------------------------------
(* The cache, as one value: the operations below map a cache to a cache *)

Cache == [l1 |-> l1Cache, l2 |-> l2Cache, alias |-> alias, stats |-> stats]

\* (variant: an entry counts as expired one millisecond late)
isExpiredLate(item, t) == t > item.expiresAt + 1

\* CacheService.isExpired
isExpired(item, t) == t > item.expiresAt

\* (variant: only the L1 copy is removed)
deleteL1Only(c, key) ==
    LET l1Deleted == MapHas(c.l1, key)
    IN  [c |-> [c EXCEPT !.l1 = MapDelete(@, key),
                         !.alias = @ \ {key},
                         !.stats.deletes = IF l1Deleted THEN @ + 1 ELSE @],
         ret |-> l1Deleted]

\* (variant: a removed entry is taken off the count of sets)
deleteUncounted(c, key) ==
    LET l1Deleted == MapHas(c.l1, key)
        l2Deleted == MapHas(c.l2, key)
    IN  [c |-> [c EXCEPT !.l1 = MapDelete(@, key),
                         !.l2 = MapDelete(@, key),
                         !.alias = @ \ {key},
                         !.stats.sets = IF l1Deleted \/ l2Deleted THEN @ - 1 ELSE @],
         ret |-> l1Deleted \/ l2Deleted]

\* CacheService.delete
delete(c, key) ==
    LET l1Deleted == MapHas(c.l1, key)
        l2Deleted == MapHas(c.l2, key)
    IN  [c |-> [c EXCEPT !.l1 = MapDelete(@, key),
                         !.l2 = MapDelete(@, key),
                         !.alias = @ \ {key},
                         !.stats.deletes = IF l1Deleted \/ l2Deleted THEN @ + 1 ELSE @],
         ret |-> l1Deleted \/ l2Deleted]

RECURSIVE lruScan(_, _, _)
\* the forEach of evictLRU from pair i on: [key, time, found] after the scan
lruScan(m, i, acc) ==
    IF i > Len(m) THEN acc
    ELSE IF m[i].item.lastAccessed < acc.time
         THEN lruScan(m, i + 1, [key |-> m[i].key, time |-> m[i].item.lastAccessed, found |-> TRUE])
         ELSE lruScan(m, i + 1, acc)

\* CacheService.evictLRU
evictLRU(c, t) ==
    IF Len(c.l1) = 0 THEN c
    ELSE LET lru == lruScan(c.l1, 1, [key |-> <<>>, time |-> t, found |-> FALSE])
         IN  IF lru.found /\ lru.key # <<>>
             THEN LET item == MapGet(c.l1, lru.key)
                  IN  [c EXCEPT !.l1 = MapDelete(@, lru.key),
                                !.l2 = IF Len(c.l2) < maxSize
                                       THEN MapSet(@, lru.key, [item EXCEPT !.level = "L2"])
                                       ELSE @,
                                !.alias = @ \ {lru.key}]
             ELSE c

\* ttl || this.defaultTTL, ttl being <<>> (null) or <<n>>
ttlOrDefault(ttl) == IF ttl = <<>> \/ ttl[1] = 0 THEN defaultTTL ELSE ttl[1]

\* whether set throws: JSON.stringify(undefined) is undefined, and reading its
\* length outside the try block is a TypeError
setThrows(value, options) == enableCompression /\ options.compress /\ value = JUndefined

\* CacheService.set; options = [level, tags, compress], level "" when not given,
\* tags <<>> when not given, compress TRUE unless given as false; when set throws
\* the cache is left as the size check left it
set(c, key, value, ttl, options, t) ==
    LET c1 == IF Len(c.l1) >= maxSize THEN evictLRU(c, t) ELSE c
        expiresAt == t + ttlOrDefault(ttl)
        doCompress == /\ enableCompression
                      /\ options.compress
                      /\ Len(JSONstringify(value)) > compressionThreshold
        item == [value |-> IF doCompress THEN compress(value) ELSE value,
                 compressed |-> doCompress,
                 expiresAt |-> expiresAt,
                 createdAt |-> t,
                 lastAccessed |-> t,
                 accessCount |-> 0,
                 level |-> IF options.level = "" THEN "L1" ELSE options.level,
                 tags |-> options.tags]
        toL2 == options.level = "L2" \/ 10 * Len(c1.l1) >= 8 * maxSize
    IN  IF setThrows(value, options) THEN c1 ELSE
        [c1 EXCEPT !.l1 = IF toL2 THEN @ ELSE MapSet(@, key, item),
                   !.l2 = IF toL2 THEN MapSet(@, key, item) ELSE @,
                   !.alias = @ \ {key},
                   !.stats.compressions = IF doCompress THEN @ + 1 ELSE @,
                   !.stats.sets = @ + 1]

\* (variant: an access extends the life of the entry by the default ttl)
touchExtending(m, key, t) ==
    [m EXCEPT ![MapIndex(m, key)].item.lastAccessed = t,
              ![MapIndex(m, key)].item.accessCount = @ + 1,
              ![MapIndex(m, key)].item.expiresAt = t + defaultTTL]

\* (variant: an access is counted and its time is not kept)
touchCounting(m, key, t) == [m EXCEPT ![MapIndex(m, key)].item.accessCount = @ + 1]

\* item.lastAccessed = Date.now(); item.accessCount++ on the object found under key
\* in map m (the object is updated in place, the Map is not)
touch(m, key, t) ==
    [m EXCEPT ![MapIndex(m, key)].item.lastAccessed = t,
              ![MapIndex(m, key)].item.accessCount = @ + 1]

\* (variant: the entry found in L2 is not copied)
promoteSkipped(c, key, item) == c

\* the promotion in CacheService.get: this.l1Cache.set(key, item) with the item
\* found in L2, which stays in L2 as the same object
promoteToL1(c, key, item) == [c EXCEPT !.l1 = MapSet(@, key, item), !.alias = @ \cup {key}]

\* CacheService.get: [c |-> the cache afterwards, ret |-> the value returned (JNull on a miss)]
get(c, key, t) ==
    LET l1Live == MapHas(c.l1, key) /\ ~isExpired(MapGet(c.l1, key), t)
        inL2 == MapHas(c.l2, key)
        promote == ~l1Live /\ inL2 /\ ~isExpired(MapGet(c.l2, key), t)
        \* after the two probes: whether item is defined, and the item
        hasItem == l1Live \/ inL2
        item == IF l1Live THEN MapGet(c.l1, key) ELSE MapGet(c.l2, key)
        c1 == IF promote
              THEN promoteToL1(c, key, item)
              ELSE c
    IN  IF ~hasItem \/ isExpired(item, t)
        THEN LET c2 == [c1 EXCEPT !.stats.misses = @ + 1]
             IN  [c |-> IF hasItem THEN delete(c2, key).c ELSE c2, ret |-> JNull]
        ELSE LET c2 == [c1 EXCEPT !.stats.hits = @ + 1]
             IN  IF item.compressed /\ enableCompression /\ ~JSONparses(item.value.str)
                 THEN [c |-> delete(c2, key).c, ret |-> JNull]
                 ELSE LET both == key \in c2.alias
                          c3 == [c2 EXCEPT
                                    !.l1 = IF l1Live \/ both THEN touch(@, key, t) ELSE @,
                                    !.l2 = IF ~l1Live \/ both THEN touch(@, key, t) ELSE @,
                                    !.stats.decompressions =
                                        IF item.compressed /\ enableCompression THEN @ + 1 ELSE @]
                      IN  [c |-> c3,
                           ret |-> IF item.compressed /\ enableCompression
                                   THEN decompress(item.value) ELSE item.value]

-----------------------------------------------------------------------------
(* Invalidation *)

RECURSIVE regexSource(_)
\* pattern.replace(/\*/g, '.*'): every other character is copied as it is
regexSource(pattern) ==
    IF pattern = <<>> THEN <<>>
    ELSE (IF pattern[1] = "*" THEN <<".", "*">> ELSE <<pattern[1]>>) \o regexSource(Tail(pattern))

\* one regular-expression atom against one character: '.' is any character
atomMatches(a, ch) == a = "." \/ a = ch

RECURSIVE regexMatches(_, _)
\* whether the regular expression r (atoms, each optionally followed by the
\* quantifier * or ?) matches the whole of s
regexMatches(r, s) ==
    IF r = <<>> THEN s = <<>>
    ELSE IF Len(r) >= 2 /\ r[2] = "*"
         THEN \/ regexMatches(SubSeq(r, 3, Len(r)), s)
              \/ s # <<>> /\ atomMatches(r[1], s[1]) /\ regexMatches(r, Tail(s))
    ELSE IF Len(r) >= 2 /\ r[2] = "?"
         THEN \/ regexMatches(SubSeq(r, 3, Len(r)), s)
              \/ s # <<>> /\ atomMatches(r[1], s[1]) /\ regexMatches(SubSeq(r, 3, Len(r)), Tail(s))
    ELSE s # <<>> /\ atomMatches(r[1], s[1]) /\ regexMatches(Tail(r), Tail(s))

\* new RegExp('^' + pattern.replace(/\*/g, '.*') + '$').test(key)
regexTest(pattern, key) == regexMatches(regexSource(pattern), key)

\* CacheService.invalidatePattern
invalidatePattern(c, pattern) ==
    LET hit(p) == regexTest(pattern, p.key)
        count == Len(SelectSeq(c.l1, hit)) + Len(SelectSeq(c.l2, hit))
    IN  [c |-> [c EXCEPT !.l1 = SelectSeq(@, LAMBDA p : ~hit(p)),
                         !.l2 = SelectSeq(@, LAMBDA p : ~hit(p)),
                         !.alias = {k \in @ : ~regexTest(pattern, k)},
                         !.stats.deletes = @ + count],
         ret |-> count]

\* item.tags && item.tags.some(tag => tagSet.has(tag))
tagged(item, tags) ==
    \E i \in 1..Len(item.tags) : \E j \in 1..Len(tags) : item.tags[i] = tags[j]

\* (variant: only L1 is searched for tagged entries)
invalidateByTagsL1Only(c, tags) ==
    LET hit(p) == tagged(p.item, tags)
        count == Len(SelectSeq(c.l1, hit))
    IN  [c |-> [c EXCEPT !.l1 = SelectSeq(@, LAMBDA p : ~hit(p)),
                         !.stats.deletes = @ + count],
         ret |-> count]

\* CacheService.invalidateByTags
invalidateByTags(c, tags) ==
    LET hit(p) == tagged(p.item, tags)
        count == Len(SelectSeq(c.l1, hit)) + Len(SelectSeq(c.l2, hit))
    IN  [c |-> [c EXCEPT !.l1 = SelectSeq(@, LAMBDA p : ~hit(p)),
                         !.l2 = SelectSeq(@, LAMBDA p : ~hit(p)),
                         !.alias = {k \in @ : ~tagged(MapGet(c.l1, k), tags)},
                         !.stats.deletes = @ + count],
         ret |-> count]

\* CacheService.clear
clear(c) ==
    [c EXCEPT !.l1 = <<>>, !.l2 = <<>>, !.alias = {},
              !.stats.deletes = @ + c.stats.sets]

-----------------------------------------------------------------------------
(* Expiry sweep and cache warming *)

\* (variant: only L1 is swept)
cleanupL1Only(c, t) ==
    LET live(p) == ~isExpired(p.item, t)
        c1 == [c EXCEPT !.l1 = SelectSeq(@, live),
                        !.alias = {k \in @ : ~isExpired(MapGet(c.l1, k), t)}]
    IN  IF 10 * Len(c1.l1) > 9 * maxSize THEN evictLRU(c1, t) ELSE c1

\* CacheService.cleanup
cleanup(c, t) ==
    LET live(p) == ~isExpired(p.item, t)
        c1 == [c EXCEPT !.l1 = SelectSeq(@, live),
                        !.l2 = SelectSeq(@, live),
                        !.alias = {k \in @ : ~isExpired(MapGet(c.l1, k), t)}]
    IN  IF 10 * Len(c1.l1) > 9 * maxSize THEN evictLRU(c1, t) ELSE c1

\* the index of the first item of items on which set throws, 0 when there is none
firstThrow(items) ==
    IF \E i \in 1..Len(items) : setThrows(items[i].value, items[i].options)
    THEN CHOOSE i \in 1..Len(items) :
            /\ setThrows(items[i].value, items[i].options)
            /\ \A j \in 1..(i - 1) : ~setThrows(items[j].value, items[j].options)
    ELSE 0

RECURSIVE setAllReversed(_, _, _)
\* (variant: the items are applied last to first)
setAllReversed(c, items, t) ==
    IF items = <<>> THEN c
    ELSE LET n == Len(items)
             c1 == set(c, items[n].key, items[n].value, items[n].ttl, items[n].options, t)
         IN  IF setThrows(items[n].value, items[n].options) THEN c1
             ELSE setAllReversed(c1, SubSeq(items, 1, n - 1), t)

RECURSIVE setAll(_, _, _)
\* for (const item of items) this.set(item.key, item.value, item.ttl, item.options || {}):
\* the loop ends at the first set that throws
setAll(c, items, t) ==
    IF items = <<>> THEN c
    ELSE LET c1 == set(c, items[1].key, items[1].value, items[1].ttl, items[1].options, t)
         IN  IF setThrows(items[1].value, items[1].options) THEN c1
             ELSE setAll(c1, Tail(items), t)

-----------------------------------------------------------------------------
(* Express cache middleware *)

\* the query string as it stands in the request URL; req.query is parsed from it
rawQuery(query) ==
    JoinChars([i \in 1..Len(query) |-> query[i].name \o <<"=">> \o query[i].value.str], <<"&">>)

\* req.originalUrl: the URL of the request as it was received, query string included
originalUrl(req) ==
    req.path \o (IF req.query = <<>> THEN <<>> ELSE <<"?">> \o rawQuery(req.query))

\* const key = self.generateKey(req.originalUrl, req.query)
requestKey(req) == generateKey(originalUrl(req), req.query)

\* middleware(ttl = null)
middlewareTtl == <<>>

-----------------------------------------------------------------------------
(* Inputs *)

KeyApiA == <<"/", "a", "p", "i", "/", "a">>
KeyApiB == <<"/", "a", "p", "i", "/", "b">>
KeyQuery == <<"/", "x", "?", "p", "=", "1">>

Keys == {KeyApiA, KeyApiB, KeyQuery}

Value1 == JArr(<<1>>)
Value12 == JArr(<<1, 2>>)

Values == {Value1, Value12}

\* the payloads a route handler answers with: the values, the number 0 and
\* undefined
Payloads == Values \cup {JNum(0), JUndefined}

\* the body of the error handler
ErrorBody == JArr(<<5>>)

\* the middlewares in the order of their app.use: the cache alone, the
\* performance middleware before it, and after it
Stacks == {<<"cache">>, <<"perf", "cache">>, <<"cache", "perf">>}

NoOptions == [level |-> "", tags |-> <<>>, compress |-> TRUE]
ToL2 == [NoOptions EXCEPT !.level = "L2"]
TagAction == [NoOptions EXCEPT !.tags = <<"genre:action">>]
TagDrama == [NoOptions EXCEPT !.tags = <<"genre:drama">>]
NoCompress == [NoOptions EXCEPT !.compress = FALSE]

Item(k, v, ttl, o) == [key |-> k, value |-> v, ttl |-> ttl, options |-> o]

\* the calls of set explored: every key with both tiers, both values, with and
\* without a ttl, tags and compression
SetInputs ==
    { Item(KeyApiA, Value1, <<>>, NoOptions),
      Item(KeyApiA, Value12, <<1>>, NoOptions),
      Item(KeyApiA, Value12, <<>>, ToL2),
      Item(KeyApiA, Value1, <<>>, TagAction),
      Item(KeyApiB, Value1, <<>>, NoOptions),
      Item(KeyApiB, Value12, <<>>, TagDrama),
      Item(KeyApiB, Value1, <<1>>, ToL2),
      Item(KeyQuery, Value1, <<>>, NoOptions),
      Item(KeyQuery, Value12, <<>>, NoCompress),
      Item(KeyQuery, Value1, <<1>>, TagAction) }

PatternApiStar == <<"/", "a", "p", "i", "/", "*">>
PatternQueryStar == <<"/", "x", "?", "p", "=", "*">>
PatternStar == <<"*">>

Patterns == {PatternApiStar, PatternQueryStar, PatternStar}

TagLists == {<<"genre:action">>, <<"genre:drama", "genre:action">>}

WarmBatches ==
    { <<Item(KeyApiA, Value1, <<>>, NoOptions), Item(KeyApiA, Value12, <<>>, NoOptions)>>,
      <<Item(KeyApiA, Value1, <<>>, ToL2), Item(KeyApiB, Value1, <<>>, ToL2)>>,
      <<Item(KeyApiA, Value1, <<>>, TagAction), Item(KeyApiB, Value12, <<>>, TagDrama),
        Item(KeyQuery, Value1, <<>>, NoOptions)>>,
      <<Item(KeyApiB, JUndefined, <<>>, NoOptions), Item(KeyApiA, Value1, <<>>, NoOptions)>> }

PathX == <<"/", "x">>
ParamA == <<"a">>
ParamB == <<"b">>

Prop(name, value) == [name |-> name, value |-> value]

\* GET /x?a=1&b=2, /x?b=2&a=1, /x?a=1&b=2&_t=9, /x?a=1 and /x
Requests ==
    { [path |-> PathX, query |-> <<Prop(ParamA, JStr(<<"1">>)), Prop(ParamB, JStr(<<"2">>))>>],
      [path |-> PathX, query |-> <<Prop(ParamB, JStr(<<"2">>)), Prop(ParamA, JStr(<<"1">>))>>],
      [path |-> PathX, query |-> <<Prop(ParamA, JStr(<<"1">>)), Prop(ParamB, JStr(<<"2">>)),
                                   Prop(UnderscoreT, JStr(<<"9">>))>>],
      [path |-> PathX, query |-> <<Prop(ParamA, JStr(<<"1">>))>>],
      [path |-> PathX, query |-> <<>>] }

ParamNames == {ParamA, ParamB, UnderscoreT, Timestamp, Nocache}

ParamValues == {JNum(1), JNum(2), JNum(999), JNull}

\* the objects of at most MaxParams properties
ParamObjects ==
    UNION { { obj \in [1..n -> [name : ParamNames, value : ParamValues]] :
                \A i, j \in 1..n : obj[i].name = obj[j].name => i = j }
            : n \in 0..MaxParams }

-----------------------------------------------------------------------------
(* State machine *)

Init ==
    /\ l1Cache = <<>>
    /\ l2Cache = <<>>
    /\ alias = {}
    /\ stats = [hits |-> 0, misses |-> 0, sets |-> 0, deletes |-> 0,
                compressions |-> 0, decompressions |-> 0]
    /\ isWarming = FALSE
    /\ warmingQueue = <<>>
    /\ now = 0
    /\ nops = 0
    /\ last = [op |-> "new", at |-> 0]
    /\ pending = <<>>
    /\ genIn = [url |-> <<>>, params |-> <<>>]
    /\ genOut = <<>>
    /\ cleanupTimer = <<1>>
    /\ timers = {1}

\* the cache c becomes the state
Becomes(c) ==
    /\ l1Cache' = c.l1
    /\ l2Cache' = c.l2
    /\ alias' = c.alias
    /\ stats' = c.stats

\* an operation is counted and recorded
Done(record) ==
    /\ nops' = nops + 1
    /\ last' = record
    /\ UNCHANGED now

\* time passes between operations
Tick ==
    /\ now < MaxTime
    /\ now' = now + 1
    /\ UNCHANGED <<l1Cache, l2Cache, alias, stats, isWarming, warmingQueue, nops, last,
                   pending, genIn, genOut, cleanupTimer, timers>>

Set(i) ==
    /\ nops < MaxOps
    /\ Becomes(set(Cache, i.key, i.value, i.ttl, i.options, now))
    /\ Done([op |-> "set", at |-> now, key |-> i.key, arg |-> i])
    /\ UNCHANGED <<isWarming, warmingQueue, pending, genIn, genOut, cleanupTimer, timers>>

Get(key) ==
    /\ nops < MaxOps
    /\ LET r == get(Cache, key, now)
       IN  /\ Becomes(r.c)
           /\ Done([op |-> "get", at |-> now, key |-> key, ret |-> r.ret])
    /\ UNCHANGED <<isWarming, warmingQueue, pending, genIn, genOut, cleanupTimer, timers>>

Delete(key) ==
    /\ nops < MaxOps
    /\ LET r == delete(Cache, key)
       IN  /\ Becomes(r.c)
           /\ Done([op |-> "delete", at |-> now, key |-> key, ret |-> r.ret])
    /\ UNCHANGED <<isWarming, warmingQueue, pending, genIn, genOut, cleanupTimer, timers>>

InvalidatePattern(pattern) ==
    /\ nops < MaxOps
    /\ LET r == invalidatePattern(Cache, pattern)
       IN  /\ Becomes(r.c)
           /\ Done([op |-> "invalidatePattern", at |-> now, arg |-> pattern, ret |-> r.ret])
    /\ UNCHANGED <<isWarming, warmingQueue, pending, genIn, genOut, cleanupTimer, timers>>

InvalidateByTags(tags) ==
    /\ nops < MaxOps
    /\ LET r == invalidateByTags(Cache, tags)
       IN  /\ Becomes(r.c)
           /\ Done([op |-> "invalidateByTags", at |-> now, arg |-> tags, ret |-> r.ret])
    /\ UNCHANGED <<isWarming, warmingQueue, pending, genIn, genOut, cleanupTimer, timers>>

Clear ==
    /\ nops < MaxOps
    /\ Becomes(clear(Cache))
    /\ Done([op |-> "clear", at |-> now])
    /\ UNCHANGED <<isWarming, warmingQueue, pending, genIn, genOut, cleanupTimer, timers>>

EvictLRU ==
    /\ nops < MaxOps
    /\ Becomes(evictLRU(Cache, now))
    /\ Done([op |-> "evictLRU", at |-> now])
    /\ UNCHANGED <<isWarming, warmingQueue, pending, genIn, genOut, cleanupTimer, timers>>

\* the sweep timer fires
Cleanup ==
    /\ nops < MaxOps
    /\ timers # {}
    /\ Becomes(cleanup(Cache, now))
    /\ Done([op |-> "cleanup", at |-> now])
    /\ UNCHANGED <<isWarming, warmingQueue, pending, genIn, genOut, cleanupTimer, timers>>

\* (variant: no finally block, a pass that ends with an exception leaves
\* isWarming set)
WarmCacheWedged(items) ==
    /\ nops < MaxOps
    /\ IF isWarming
       THEN /\ warmingQueue' = warmingQueue \o items
            /\ UNCHANGED <<l1Cache, l2Cache, alias, stats, isWarming>>
            /\ Done([op |-> "warmCache", at |-> now, arg |-> items, threw |-> FALSE])
       ELSE /\ Becomes(setAll(Cache, items, now))
            /\ UNCHANGED warmingQueue
            /\ isWarming' = (firstThrow(items) # 0)
            /\ Done([op |-> "warmCache", at |-> now, arg |-> items,
                     threw |-> firstThrow(items) # 0])
    /\ UNCHANGED <<pending, genIn, genOut, cleanupTimer, timers>>

\* CacheService.warmCache: the function holds no await, so a call runs to its end
\* before any other code does; a set that throws ends the pass, the finally block
\* resets isWarming and the items not yet shifted stay in the queue
WarmCache(items) ==
    /\ nops < MaxOps
    /\ IF isWarming
       THEN /\ warmingQueue' = warmingQueue \o items
            /\ UNCHANGED <<l1Cache, l2Cache, alias, stats, isWarming>>
            /\ Done([op |-> "warmCache", at |-> now, arg |-> items, threw |-> FALSE])
       ELSE LET c1 == setAll(Cache, items, now)
                threw1 == firstThrow(items) # 0
                threw2 == ~threw1 /\ firstThrow(warmingQueue) # 0
            IN  /\ Becomes(IF threw1 THEN c1 ELSE setAll(c1, warmingQueue, now))
                /\ warmingQueue' =
                       IF threw1 THEN warmingQueue
                       ELSE IF threw2
                            THEN SubSeq(warmingQueue, firstThrow(warmingQueue) + 1,
                                        Len(warmingQueue))
                            ELSE <<>>
                /\ isWarming' = FALSE
                /\ Done([op |-> "warmCache", at |-> now, arg |-> items,
                         threw |-> threw1 \/ threw2])
    /\ UNCHANGED <<pending, genIn, genOut, cleanupTimer, timers>>

Next ==
    \/ Tick
    \/ \E i \in SetInputs : Set(i)
    \/ \E k \in Keys : Get(k)
    \/ \E k \in Keys : Delete(k)
    \/ \E p \in Patterns : InvalidatePattern(p)
    \/ \E t \in TagLists : InvalidateByTags(t)
    \/ Clear
    \/ EvictLRU
    \/ Cleanup
    \/ \E b \in WarmBatches : WarmCache(b)

Spec == Init /\ [][Next]_vars

-----------------------------------------------------------------------------
(* The middleware in front of the cache *)

\* the response object of a request as Express hands it to the first middleware:
\* json and send are the wrappers installed over res.json and res.send, the
\* outermost first, and xcache, xtime and status the headers and the status set
NewResponse == [json |-> <<>>, send |-> <<>>, xcache |-> "", xtime |-> FALSE, status |-> 200]

\* what a call of res.json or res.send has done so far: the cache, the response,
\* the wrappers passed, the responses handed to the transport and whether the
\* call ended with an exception
Emitting(c, res) ==
    [c |-> c, res |-> res, passes |-> <<>>, emitted |-> <<>>, threw |-> FALSE]

\* performanceMiddleware, up to next(): the wrappers are installed unless
\* res._performanceOriginalJson is set
performanceMiddleware(res) ==
    IF \E i \in 1..Len(res.json) : res.json[i] = "perf"
    THEN res
    ELSE [res EXCEPT !.json = <<"perf">> \o @, !.send = <<"perf">> \o @]

\* const currentJson = res.json.bind(res); res.json = function(data) {...}
wrapJson(res) == [res EXCEPT !.json = <<"cache">> \o @]

RECURSIVE callSend(_, _, _)
\* res.send(data) entered at the wrappers chain: the wrapper of the performance
\* middleware sets X-Response-Time, the send of Express writes the response
callSend(chain, e, data) ==
    IF chain = <<>>
    THEN [e EXCEPT !.emitted = Append(@, [body |-> data, xcache |-> e.res.xcache,
                                           xtime |-> e.res.xtime, status |-> e.res.status])]
    ELSE callSend(Tail(chain),
                  [e EXCEPT !.res.xtime = TRUE, !.passes = Append(@, "perf.send")], data)

RECURSIVE callJson(_, _, _, _, _)
\* res.json(data) entered at the wrappers chain: the wrapper of the cache stores
\* data under key and sets X-Cache: MISS, unless set throws, which ends the
\* call; the wrapper of the performance middleware sets X-Response-Time; and
\* the json of Express hands the body to this.send
callJson(chain, e, key, data, t) ==
    IF chain = <<>> THEN callSend(e.res.send, e, data)
    ELSE IF Head(chain) = "cache"
    THEN LET stored == [e EXCEPT !.c = set(@, key, data, middlewareTtl, NoOptions, t),
                                 !.passes = Append(@, "cache")]
         IN  IF setThrows(data, NoOptions)
             THEN [stored EXCEPT !.threw = TRUE]
             ELSE callJson(Tail(chain), [stored EXCEPT !.res.xcache = "MISS"], key, data, t)
    ELSE callJson(Tail(chain),
                  [e EXCEPT !.res.xtime = TRUE, !.passes = Append(@, "perf.json")],
                  key, data, t)

RECURSIVE handle(_, _, _, _, _)
\* the middlewares of stack called one after the other on a request, each by
\* the next() of the one before: [answered, key, e] when the cache answers the
\* request itself, [answered, key, c, res] when the route handler is reached
handle(stack, c, res, req, t) ==
    IF stack = <<>>
    THEN [answered |-> FALSE, key |-> requestKey(req), c |-> c, res |-> res]
    ELSE IF Head(stack) = "perf"
    THEN handle(Tail(stack), c, performanceMiddleware(res), req, t)
    ELSE LET key == requestKey(req)
             cached == get(c, key, t)
         IN  IF Truthy(cached.ret)
             THEN [answered |-> TRUE, key |-> key,
                   e |-> callJson(res.json, Emitting(cached.c, [res EXCEPT !.xcache = "HIT"]),
                                  key, cached.ret, t)]
             ELSE handle(Tail(stack), cached.c, wrapJson(res), req, t)

\* a request runs through the middlewares of stack: the cache answers it from a
\* truthy cached value, or the route handler is reached and the response waits
\* for its answer
MwRequest(req, stack) ==
    /\ nops < MaxMwOps
    /\ LET r == handle(stack, Cache, NewResponse, req, now)
       IN  IF r.answered
           THEN /\ Becomes(r.e.c)
                /\ Done([op |-> "request", at |-> now, req |-> req, key |-> r.key,
                         xcache |-> r.e.emitted[1].xcache, body |-> r.e.emitted[1].body,
                         xtime |-> r.e.emitted[1].xtime, passes |-> r.e.passes,
                         emissions |-> Len(r.e.emitted)])
                /\ UNCHANGED pending
           ELSE /\ Becomes(r.c)
                /\ Done([op |-> "request", at |-> now, req |-> req, key |-> r.key,
                         xcache |-> "", body |-> JNull, xtime |-> FALSE, passes |-> <<>>,
                         emissions |-> 0])
                /\ pending' = Append(pending, [req |-> req, key |-> r.key, res |-> r.res,
                                            stack |-> stack])
    /\ UNCHANGED <<isWarming, warmingQueue, genIn, genOut, cleanupTimer, timers>>

\* pending without its entry i
Answered(i) == [j \in 1..(Len(pending) - 1) |-> IF j < i THEN pending[j] ELSE pending[j + 1]]

\* what an answer of the route handler of pending request i leaves behind: the
\* response is emitted, or the call threw and the request still waits
Emits(op, i, data, e) ==
    /\ Becomes(e.c)
    /\ IF e.threw
       THEN /\ Done([op |-> op, at |-> now, req |-> pending[i].req, key |-> pending[i].key,
                     data |-> data, xcache |-> "", body |-> JNull, xtime |-> FALSE,
                     stack |-> pending[i].stack, passes |-> e.passes, emissions |-> 0])
            /\ pending' = [pending EXCEPT ![i].res = e.res]
       ELSE /\ Done([op |-> op, at |-> now, req |-> pending[i].req, key |-> pending[i].key,
                     data |-> data, xcache |-> e.emitted[1].xcache, body |-> e.emitted[1].body,
                     xtime |-> e.emitted[1].xtime, stack |-> pending[i].stack,
                     passes |-> e.passes, emissions |-> Len(e.emitted)])
            /\ pending' = Answered(i)
    /\ UNCHANGED <<isWarming, warmingQueue, genIn, genOut, cleanupTimer, timers>>

\* the route handler of pending request i calls res.json(data)
MwJson(i, data) ==
    /\ nops < MaxMwOps
    /\ i \in 1..Len(pending)
    /\ Emits("json", i, data, callJson(pending[i].res.json, Emitting(Cache, pending[i].res),
                                 pending[i].key, data, now))

\* the route handler of pending request i calls res.send(data)
MwSend(i, data) ==
    /\ nops < MaxMwOps
    /\ i \in 1..Len(pending)
    /\ Emits("send", i, data, callSend(pending[i].res.send, Emitting(Cache, pending[i].res), data))

\* the route handler of pending request i fails and errorHandler answers with
\* res.status(error.statusCode).json(body)
MwError(i) ==
    /\ nops < MaxMwOps
    /\ i \in 1..Len(pending)
    /\ Emits("error", i, ErrorBody,
             callJson(pending[i].res.json,
                      Emitting(Cache, [pending[i].res EXCEPT !.status = 500]),
                      pending[i].key, ErrorBody, now))

MwNext ==
    \/ Tick
    \/ \E req \in Requests, stack \in Stacks : MwRequest(req, stack)
    \/ \E i \in 1..MaxMwOps, data \in Payloads : MwJson(i, data)
    \/ \E i \in 1..MaxMwOps : MwSend(i, Value1)
    \/ \E i \in 1..MaxMwOps : MwError(i)

SpecMw == Init /\ [][MwNext]_vars

-----------------------------------------------------------------------------
(* set on its own, values that JSON.stringify does not serialize included *)

TierInputs ==
    SetInputs \cup { Item(KeyApiA, JUndefined, <<>>, NoOptions),
                     Item(KeyApiB, JUndefined, <<>>, ToL2),
                     Item(KeyQuery, Value1, <<0>>, NoOptions),
                     Item(KeyApiB, Value12, <<0>>, ToL2) }

TierNext ==
    \/ Tick
    \/ \E i \in TierInputs : Set(i)

SpecTier == Init /\ [][TierNext]_vars

-----------------------------------------------------------------------------
(* Invalidation while requests wait for their answers *)

\* the key of GET /x?a=1&b=2
KeyAB == requestKey([path |-> PathX,
                     query |-> <<Prop(ParamA, JStr(<<"1">>)), Prop(ParamB, JStr(<<"2">>))>>])

\* the requests of that key
SameKeyRequests == {req \in Requests : requestKey(req) = KeyAB}

\* requests of one key through the adapter, and beside them calls that store
\* the key and calls that invalidate it
InvalidationNext ==
    \/ Tick
    \/ \E req \in SameKeyRequests : MwRequest(req, <<"cache">>)
    \/ \E i \in 1..MaxMwOps, data \in Values : MwJson(i, data)
    \/ \E o \in {NoOptions, TagAction, ToL2} : Set(Item(KeyAB, Value12, <<>>, o))
    \/ Delete(KeyAB)
    \/ InvalidatePattern(PatternStar)
    \/ \E t \in TagLists : InvalidateByTags(t)
    \/ Clear

SpecInvalidation == Init /\ [][InvalidationNext]_vars

-----------------------------------------------------------------------------
(* Warm passes on their own *)

WarmNext ==
    \/ Tick
    \/ \E b \in WarmBatches : WarmCache(b)

SpecWarm == Init /\ [][WarmNext]_vars

-----------------------------------------------------------------------------
(* The sweep timer *)

\* the sweeper of the cache: this.cleanupTimer and the timers scheduled
Sweeper == [cleanupTimer |-> cleanupTimer, timers |-> timers]

\* (variant: the timer in place is not cleared)
startCleanupKeeping(sw, id) == [cleanupTimer |-> <<id>>, timers |-> sw.timers \cup {id}]

\* CacheService.startCleanup, id being the timer setInterval returns
startCleanup(sw, id) ==
    LET cleared == IF sw.cleanupTimer # <<>>
                   THEN sw.timers \ {sw.cleanupTimer[1]}
                   ELSE sw.timers
    IN  [cleanupTimer |-> <<id>>, timers |-> cleared \cup {id}]

\* CacheService.stopCleanup
stopCleanup(sw) ==
    IF sw.cleanupTimer # <<>>
    THEN [cleanupTimer |-> <<>>, timers |-> sw.timers \ {sw.cleanupTimer[1]}]
    ELSE sw

\* the sweeper sw becomes the state
Schedules(sw) ==
    /\ cleanupTimer' = sw.cleanupTimer
    /\ timers' = sw.timers

\* startCleanup is called; the constructor made timer 1, every later call makes
\* a timer of its own
StartCleanup ==
    /\ nops < MaxOps
    /\ Schedules(startCleanup(Sweeper, nops + 2))
    /\ Done([op |-> "startCleanup", at |-> now])
    /\ UNCHANGED <<l1Cache, l2Cache, alias, stats, isWarming, warmingQueue, pending,
                   genIn, genOut>>

StopCleanup ==
    /\ nops < MaxOps
    /\ Schedules(stopCleanup(Sweeper))
    /\ Done([op |-> "stopCleanup", at |-> now])
    /\ UNCHANGED <<l1Cache, l2Cache, alias, stats, isWarming, warmingQueue, pending,
                   genIn, genOut>>

SweeperNext ==
    \/ Tick
    \/ \E i \in SetInputs : Set(i)
    \/ StartCleanup
    \/ StopCleanup
    \/ Cleanup

SpecSweeper == Init /\ [][SweeperNext]_vars

\* the interval of the sweep timer elapses and its callback runs cleanup(); the
\* timer fires for as long as it is scheduled, however many calls were made
Sweep ==
    /\ timers # {}
    /\ Becomes(cleanup(Cache, now))
    /\ last' = [op |-> "cleanup", at |-> now]
    /\ UNCHANGED <<now, nops, isWarming, warmingQueue, pending, genIn, genOut,
                   cleanupTimer, timers>>

\* the calls of set made beside the sweep: the entries that expire within
\* MaxTime, in either tier, and one that does not
SweptInputs == {i \in SetInputs : i.ttl = <<1>> \/ (i.key = KeyApiA /\ i.options = NoOptions)}

RecurringNext ==
    \/ Tick
    \/ \E i \in SweptInputs : Set(i)
    \/ StartCleanup
    \/ StopCleanup
    \/ Sweep

\* setInterval keeps calling the callback of a scheduled timer: a sweep that
\* stays possible is made
SpecRecurring == Init /\ [][RecurringNext]_vars /\ WF_vars(Sweep)

-----------------------------------------------------------------------------
(* Statistics *)

\* (variant: the digits after the second decimal are cut off)
percentTruncated(hits, lookups) == (10000 * hits) \div lookups

\* hits / lookups * 100 in hundredths, as toFixed(2) rounds it: to the nearest
\* hundredth, the larger one of two equally near
percent(hits, lookups) == (2 * 10000 * hits + lookups) \div (2 * lookups)

\* Number.prototype.toFixed(2) of the number of h hundredths
toFixed(h) ==
    NumberToString(h \div 100) \o <<".">> \o <<DigitChar((h % 100) \div 10), DigitChar(h % 10)>>

\* CacheService.getItemSize
getItemSize(item) == IF item.value = JUndefined THEN 0 ELSE Len(JSONstringify(item.value))

\* the number of entries of map m that are expired at time t
expiredIn(m, t) == Cardinality({i \in 1..Len(m) : isExpired(m[i].item, t)})

RECURSIVE sizeOf(_)
\* the sum of getItemSize over the entries of map m
sizeOf(m) == IF m = <<>> THEN 0 ELSE getItemSize(m[1].item) + sizeOf(Tail(m))

\* CacheService.getStats
getStats(c, t) ==
    LET l1Expired == expiredIn(c.l1, t)
        l2Expired == expiredIn(c.l2, t)
        totalSize == sizeOf(c.l1) + sizeOf(c.l2)
        hitRate == IF c.stats.hits + c.stats.misses > 0
                   THEN toFixed(percent(c.stats.hits, c.stats.hits + c.stats.misses))
                   ELSE <<"0">>
    IN  [l1 |-> [size |-> Len(c.l1), expired |-> l1Expired, active |-> Len(c.l1) - l1Expired],
         l2 |-> [size |-> Len(c.l2), expired |-> l2Expired, active |-> Len(c.l2) - l2Expired],
         total |-> [size |-> Len(c.l1) + Len(c.l2),
                    expired |-> l1Expired + l2Expired,
                    active |-> (Len(c.l1) + Len(c.l2)) - (l1Expired + l2Expired),
                    estimatedSize |-> totalSize],
         performance |-> [hits |-> c.stats.hits,
                          misses |-> c.stats.misses,
                          hitRate |-> hitRate \o <<"%">>,
                          sets |-> c.stats.sets,
                          deletes |-> c.stats.deletes,
                          compressions |-> c.stats.compressions,
                          decompressions |-> c.stats.decompressions]]

\* the number of digits s begins with
leadingDigits(s) ==
    CHOOSE k \in 0..Len(s) :
        /\ \A i \in 1..k : IsDigitChar(s[i])
        /\ k = Len(s) \/ ~IsDigitChar(s[k + 1])

RECURSIVE digitsToNumber(_)
\* the number the digits s write
digitsToNumber(s) ==
    IF s = <<>> THEN 0 ELSE 10 * digitsToNumber(SubSeq(s, 1, Len(s) - 1)) + DigitValue(s[Len(s)])

\* parseFloat(s) || 0 of a text with at most two decimals, in hundredths: the
\* longest prefix of s that writes a number, 0 when there is none
parseFloat(s) ==
    LET k == leadingDigits(s)
        rest == SubSeq(s, k + 2, Len(s))
        decimals == IF k < Len(s) /\ s[k + 1] = "." THEN leadingDigits(rest) ELSE 0
    IN  IF k = 0 THEN 0
        ELSE 100 * digitsToNumber(SubSeq(s, 1, k))
             + (IF decimals = 0 THEN 0
                ELSE IF decimals = 1 THEN 10 * DigitValue(rest[1])
                ELSE 10 * DigitValue(rest[1]) + DigitValue(rest[2]))

RECURSIVE getTimes(_, _, _, _)
\* the cache after n calls of get(key) at time t
getTimes(c, key, n, t) == IF n = 0 THEN c ELSE getTimes(get(c, key, t).c, key, n - 1, t)

\* a new cache
NewCache ==
    [l1 |-> <<>>, l2 |-> <<>>, alias |-> {},
     stats |-> [hits |-> 0, misses |-> 0, sets |-> 0, deletes |-> 0,
                compressions |-> 0, decompressions |-> 0]]

\* the caches getStats is called on: a new cache, or one with one entry set,
\* after up to MaxLookups lookups of a key it holds and up to MaxLookups of a
\* key it does not
StatsCaches ==
    { getTimes(getTimes(c, KeyApiA, n, 0), KeyApiB, m, 0) :
        c \in {NewCache} \cup {set(NewCache, KeyApiA, i.value, i.ttl, i.options, 0) :
                                    i \in {j \in SetInputs : j.key = KeyApiA}},
        n \in 0..MaxLookups, m \in 0..MaxLookups }

StatsInit ==
    /\ \E c \in StatsCaches : /\ l1Cache = c.l1
                              /\ l2Cache = c.l2
                              /\ alias = c.alias
                              /\ stats = c.stats
    /\ isWarming = FALSE
    /\ warmingQueue = <<>>
    /\ now = 0
    /\ nops = 0
    /\ last = [op |-> "new", at |-> 0]
    /\ pending = <<>>
    /\ genIn = [url |-> <<>>, params |-> <<>>]
    /\ genOut = <<>>
    /\ cleanupTimer = <<1>>
    /\ timers = {1}

\* getStats is called; the dashboard reads parseFloat(hitRate) || 0 from it
GetStats ==
    /\ nops < MaxOps
    /\ Done([op |-> "getStats", at |-> now, ret |-> getStats(Cache, now),
             cacheHitRate |-> parseFloat(getStats(Cache, now).performance.hitRate)])
    /\ UNCHANGED <<l1Cache, l2Cache, alias, stats, isWarming, warmingQueue, pending,
                   genIn, genOut, cleanupTimer, timers>>

StatsNext ==
    \/ Tick
    \/ GetStats

SpecStats == StatsInit /\ [][StatsNext]_vars

-----------------------------------------------------------------------------
(* The cache with entries whose stored text no longer decodes *)

\* the text s cut short by its last character: JSON.parse rejects it
damaged(s) == SubSeq(s, 1, Len(s) - 1)

\* map m with the text of the compressed entry under key damaged
damage(m, key) == [m EXCEPT ![MapIndex(m, key)].item.value.str = damaged(@)]

\* the text of a compressed entry is damaged behind the back of the cache
\* (l1Cache and l2Cache are public fields of the exported instance): the state
\* the catch block of get is written for. An object held by both tiers is
\* damaged in both
Corrupt(key, tier) ==
    /\ nops < MaxOps
    /\ LET m == IF tier = "L1" THEN l1Cache ELSE l2Cache
       IN  /\ MapHas(m, key)
           /\ MapGet(m, key).compressed
           /\ JSONparses(MapGet(m, key).value.str)
    /\ l1Cache' = IF tier = "L1" \/ key \in alias THEN damage(l1Cache, key) ELSE l1Cache
    /\ l2Cache' = IF tier = "L2" \/ key \in alias THEN damage(l2Cache, key) ELSE l2Cache
    /\ Done([op |-> "corrupt", at |-> now, key |-> key])
    /\ UNCHANGED <<alias, stats, isWarming, warmingQueue, pending, genIn, genOut,
                   cleanupTimer, timers>>

FaultNext ==
    \/ Tick
    \/ \E i \in SetInputs : Set(i)
    \/ \E k \in Keys : Get(k)
    \/ \E k \in Keys, tier \in {"L1", "L2"} : Corrupt(k, tier)

SpecFault == Init /\ [][FaultNext]_vars

-----------------------------------------------------------------------------
(* generateKey alone, on every object of ParamObjects *)

GenInit ==
    /\ l1Cache = <<>>
    /\ l2Cache = <<>>
    /\ alias = {}
    /\ stats = [hits |-> 0, misses |-> 0, sets |-> 0, deletes |-> 0,
                compressions |-> 0, decompressions |-> 0]
    /\ isWarming = FALSE
    /\ warmingQueue = <<>>
    /\ now = 0
    /\ nops = 0
    /\ last = [op |-> "new", at |-> 0]
    /\ pending = <<>>
    /\ genIn \in [url : {PathX}, params : ParamObjects]
    /\ genOut = <<>>
    /\ cleanupTimer = <<1>>
    /\ timers = {1}

GenerateKey ==
    /\ genOut = <<>>
    /\ genOut' = <<generateKey(genIn.url, genIn.params)>>
    /\ UNCHANGED <<l1Cache, l2Cache, alias, stats, isWarming, warmingQueue, now, nops, last,
                   pending, genIn, cleanupTimer, timers>>

GenNext == GenerateKey

SpecKey == GenInit /\ [][GenNext]_vars

-----------------------------------------------------------------------------
(* Properties *)

\* a step that performs operation op
Performs(op) == nops' = nops + 1 /\ last'.op = op

\* the payload an entry stands for
Decoded(item) == IF item.compressed THEN JSONparse(item.value.str) ELSE item.value

Live(item, t) == ~(t > item.expiresAt)

\* C1: round trip. A get(k) that directly follows set(k, v, t), t > 0, with less
\* than t elapsed, returns v, compressed or not, whichever tier took the entry.
C1_RoundTrip ==
    [][(/\ last.op = "set"
        /\ Performs("get")
        /\ last'.key = last.key
        /\ last.arg.ttl # <<0>>
        /\ now - last.at < (IF last.arg.ttl = <<>> THEN defaultTTL ELSE last.arg.ttl[1]))
       => last'.ret = last.arg.value]_vars

\* C2: a get that returns a value returns the payload of an entry for that key
\* that is unexpired at the time of the call.
C2_NeverReturnsExpired ==
    [][(Performs("get") /\ last'.ret # JNull)
       => \E m \in {l1Cache, l2Cache} :
            /\ MapHas(m, last'.key)
            /\ Live(MapGet(m, last'.key), now)
            /\ Decoded(MapGet(m, last'.key)) = last'.ret]_vars

\* C2 happens: a get returned a value while L2 holds an expired entry for the key
C2_Witness ==
    /\ last.op = "get"
    /\ last.ret # JNull
    /\ MapHas(l2Cache, last.key)
    /\ ~Live(MapGet(l2Cache, last.key), now)
    /\ last.at = now

\* C3: a get(k) that finds k's entry expired and no live entry for k in either
\* tier is a miss, counts a miss, and leaves k in neither tier.
C3_ExpiredGetRemoves ==
    [][(/\ Performs("get")
        /\ \E m \in {l1Cache, l2Cache} : MapHas(m, last'.key)
        /\ \A m \in {l1Cache, l2Cache} :
               MapHas(m, last'.key) => ~Live(MapGet(m, last'.key), now))
       => /\ last'.ret = JNull
          /\ stats'.misses = stats.misses + 1
          /\ ~MapHas(l1Cache', last'.key)
          /\ ~MapHas(l2Cache', last'.key)]_vars

\* C4: L1 never holds more than maxSize entries.
C4_L1Bounded == Len(l1Cache) <= maxSize

\* C5: a set of a key new to L1 while L1 holds maxSize entries or more makes
\* exactly one entry leave L1.
C5_ExactlyOneEviction ==
    [][(/\ Performs("set")
        /\ ~MapHas(l1Cache, last'.key)
        /\ Len(l1Cache) >= maxSize)
       => Cardinality(MapKeys(l1Cache) \ MapKeys(l1Cache')) = 1]_vars

\* C6: when both tiers hold an unexpired entry for a key, the two entries have
\* the same value and the same expiresAt.
C6_OneLiveEntryPerKey ==
    \A k \in MapKeys(l1Cache) \cap MapKeys(l2Cache) :
        (Live(MapGet(l1Cache, k), now) /\ Live(MapGet(l2Cache, k), now))
        => /\ MapGet(l1Cache, k).value = MapGet(l2Cache, k).value
           /\ MapGet(l1Cache, k).expiresAt = MapGet(l2Cache, k).expiresAt

RECURSIVE GlobMatches(_, _)
\* whether key matches the pattern, * standing for any run of characters and
\* every other character for itself
GlobMatches(pattern, key) ==
    IF pattern = <<>> THEN key = <<>>
    ELSE IF pattern[1] = "*"
         THEN \/ GlobMatches(Tail(pattern), key)
              \/ key # <<>> /\ GlobMatches(pattern, Tail(key))
    ELSE key # <<>> /\ pattern[1] = key[1] /\ GlobMatches(Tail(pattern), Tail(key))

\* C9: invalidatePattern(p) leaves no key matching p in either tier, leaves every
\* other entry in its tier as it was, returns the number of keys it removed and
\* adds that number to stats.deletes.
C9_InvalidatePattern ==
    [][Performs("invalidatePattern")
       => LET p == last'.arg
              keep(e) == ~GlobMatches(p, e.key)
              before == MapKeys(l1Cache) \cup MapKeys(l2Cache)
              after == MapKeys(l1Cache') \cup MapKeys(l2Cache')
          IN  /\ l1Cache' = SelectSeq(l1Cache, keep)
              /\ l2Cache' = SelectSeq(l2Cache, keep)
              /\ last'.ret = Cardinality(before \ after)
              /\ stats'.deletes = stats.deletes + last'.ret]_vars

\* whether the tag lists share a tag
Intersects(tags1, tags2) ==
    {tags1[i] : i \in 1..Len(tags1)} \cap {tags2[i] : i \in 1..Len(tags2)} # {}

\* C10: invalidateByTags(T) leaves no entry whose tags intersect T in either
\* tier, leaves every other entry in its tier as it was, returns the number of
\* entries it removed and adds that number to stats.deletes.
C10_InvalidateByTags ==
    [][Performs("invalidateByTags")
       => LET keep(e) == ~Intersects(e.item.tags, last'.arg)
          IN  /\ l1Cache' = SelectSeq(l1Cache, keep)
              /\ l2Cache' = SelectSeq(l2Cache, keep)
              /\ last'.ret = (Len(l1Cache) - Len(l1Cache')) + (Len(l2Cache) - Len(l2Cache'))
              /\ stats'.deletes = stats.deletes + last'.ret]_vars

\* C10 happens: invalidateByTags(["genre:action"]) removed an entry and kept an
\* entry tagged genre:drama and an untagged one
C10_Witness ==
    /\ last.op = "invalidateByTags"
    /\ last.arg = <<"genre:action">>
    /\ last.ret >= 1
    /\ \E k \in MapKeys(l1Cache) \cup MapKeys(l2Cache) :
         (IF MapHas(l1Cache, k) THEN MapGet(l1Cache, k) ELSE MapGet(l2Cache, k)).tags
            = <<"genre:drama">>
    /\ \E k \in MapKeys(l1Cache) \cup MapKeys(l2Cache) :
         (IF MapHas(l1Cache, k) THEN MapGet(l1Cache, k) ELSE MapGet(l2Cache, k)).tags = <<>>

\* the properties an object contributes to the key: not _t, timestamp or nocache,
\* and with a value
Contributes(p) == p.name \notin {UnderscoreT, Timestamp, Nocache} /\ p.value # JNull

\* whether key is url followed by ? and the name=value pairs of props joined by &
\* in the order given, or url alone when there is none
RendersAs(key, url, props) ==
    key = url \o (IF props = <<>> THEN <<>>
                  ELSE <<"?">> \o JoinChars([i \in 1..Len(props) |->
                           props[i].name \o <<"=">> \o TemplateString(props[i].value)], <<"&">>))

\* the sequences that hold the elements of seq in some order
Orderings(seq) ==
    { [i \in 1..Len(seq) |-> seq[f[i]]] :
        f \in { g \in [1..Len(seq) -> 1..Len(seq)] :
                  \A i, j \in 1..Len(seq) : g[i] = g[j] => i = j } }

Volatile(p) == p.name \in {UnderscoreT, Timestamp, Nocache}

\* objects that differ from params in the order of the properties or in volatile
\* properties only
SameButOrderAndVolatile(params) ==
    LET stable == SelectSeq(params, LAMBDA p : ~Volatile(p))
    IN  UNION { Orderings(base) :
                  base \in {params, stable}
                           \cup {<<Prop(n, JNum(999))>> \o stable :
                                   n \in {UnderscoreT, Timestamp, Nocache}} }

\* C7: generateKey(path, params) is path, then ? and the name=value pairs of the
\* contributing properties in ascending order of their names joined by &; objects
\* that differ in the order of their properties or in volatile properties only
\* get the same key.
C7_KeyCanonical ==
    genOut # <<>> =>
        /\ \E props \in Orderings(SelectSeq(genIn.params, Contributes)) :
              /\ \A i \in 1..(Len(props) - 1) : StringLess(props[i].name, props[i + 1].name)
              /\ RendersAs(genOut[1], genIn.url, props)
        /\ \A other \in SameButOrderAndVolatile(genIn.params) :
              generateKey(genIn.url, other) = genOut[1]

\* C7 happens: {b:2, a:1, _t:999} on /x gave /x?a=1&b=2
C7_Witness ==
    /\ genIn.url = PathX
    /\ genIn.params = <<Prop(ParamB, JNum(2)), Prop(ParamA, JNum(1)), Prop(UnderscoreT, JNum(999))>>
    /\ genOut = << <<"/", "x", "?", "a", "=", "1", "&", "b", "=", "2">> >>

\* the parameters of a request that are not volatile, order apart
StableQuery(req) == {req.query[i] : i \in {j \in 1..Len(req.query) : Contributes(req.query[j])}}

\* C8: a request that follows the response to a request for the same path whose
\* query differs in order or in volatile parameters only has the same cache key
\* and is served the stored payload as a HIT.
C8_EquivalentRequestsHit ==
    [][(/\ last.op = "json"
        /\ last.emissions = 1
        /\ Performs("request")
        /\ last'.req.path = last.req.path
        /\ StableQuery(last'.req) = StableQuery(last.req)
        /\ now - last.at < defaultTTL)
       => /\ last'.key = last.key
          /\ last'.xcache = "HIT"
          /\ last'.body = last.body]_vars

-----------------------------------------------------------------------------
(* Removal *)

\* the cache after the step
CacheAfter == [l1 |-> l1Cache', l2 |-> l2Cache', alias |-> alias', stats |-> stats']

\* the entries of map m under keys other than key, in their order
Others(m, key) == SelectSeq(m, LAMBDA p : p.key # key)

\* C11: delete(k) removes k from both tiers, returns true exactly when k was in
\* at least one tier, adds 1 to stats.deletes in that case and 0 otherwise,
\* leaves the entries of every other key and every other counter as they were,
\* and a get(k) made directly afterwards is a miss
C11_Delete ==
    [][Performs("delete") =>
        LET k == last'.key
            present == MapHas(l1Cache, k) \/ MapHas(l2Cache, k)
        IN  /\ ~MapHas(l1Cache', k)
            /\ ~MapHas(l2Cache', k)
            /\ last'.ret = present
            /\ stats' = [stats EXCEPT !.deletes = IF present THEN @ + 1 ELSE @]
            /\ l1Cache' = Others(l1Cache, k)
            /\ l2Cache' = Others(l2Cache, k)
            /\ get(CacheAfter, k, now').ret = JNull
            /\ get(CacheAfter, k, now').c.stats.misses = stats'.misses + 1]_vars

\* a delete removed its key and returned true, an entry of another key staying cached
C11_Witness ==
    /\ last.op = "delete"
    /\ last.ret = TRUE
    /\ stats.deletes = 1
    /\ stats.sets = 2
    /\ Len(l1Cache) + Len(l2Cache) = 1

\* the keys of map m
KeySet(m) == {m[i].key : i \in 1..Len(m)}

\* C12: clear() leaves both tiers empty, adds to stats.deletes the number of
\* entries L1 and L2 held just before the call (counting a key held in both
\* tiers once or twice), 0 when the cache was empty, and leaves hits, misses,
\* sets, compressions and decompressions as they were
C12_Clear ==
    [][Performs("clear") =>
        /\ l1Cache' = <<>>
        /\ l2Cache' = <<>>
        /\ \/ stats' = [stats EXCEPT !.deletes = @ + Len(l1Cache) + Len(l2Cache)]
           \/ stats' = [stats EXCEPT
                           !.deletes = @ + Cardinality(KeySet(l1Cache) \cup KeySet(l2Cache))]]_vars

-----------------------------------------------------------------------------
(* Cache warming *)

\* the value of the last item of items that carries key
LastValue(items, key) ==
    LET n == CHOOSE i \in 1..Len(items) :
                 /\ items[i].key = key
                 /\ \A j \in (i + 1)..Len(items) : items[j].key # key
    IN  items[n].value

\* C13: after warmCache(items) has completed (no set of the pass threw),
\* get(key) returns, for every key that occurs in items, the value of the last
\* item that carries that key, whatever the cache held when warmCache was called
C13_WarmOrdering ==
    [][Performs("warmCache") /\ ~last'.threw =>
        \A i \in 1..Len(last'.arg) :
            get(CacheAfter, last'.arg[i].key, now').ret
                = LastValue(last'.arg, last'.arg[i].key)]_vars

RECURSIVE AppliedInOrder(_, _, _, _)
\* the cache after set has been called on the first n items of items, one after
\* the other
AppliedInOrder(c, items, n, t) ==
    IF n = 0 THEN c
    ELSE set(AppliedInOrder(c, items, n - 1, t),
             items[n].key, items[n].value, items[n].ttl, items[n].options, t)

\* the number of items of items a pass calls set on: all of them, or those up to
\* the first one on which set throws
Reached(items) == IF firstThrow(items) = 0 THEN Len(items) ELSE firstThrow(items)

\* C14: no warm pass is ever active when another operation runs, so at most one
\* is active at any moment, and a pass calls set on its items strictly in
\* submission order, the items of the call first and the queued items after
\* them, with no set of another pass in between: the cache after the pass is the
\* cache before it with set applied to these items one after the other
C14_OnePassInOrder ==
    [][/\ ~isWarming'
       /\ Performs("warmCache") =>
             LET items == last'.arg \o warmingQueue
             IN  /\ ~isWarming
                 /\ CacheAfter = AppliedInOrder(Cache, items, Reached(items), now)]_vars

\* a pass was handed two items of one key and the later one is what L1 holds
C14_Witness ==
    /\ last.op = "warmCache"
    /\ Len(last.arg) = 2
    /\ last.arg[1].key = last.arg[2].key
    /\ last.arg[1].value # last.arg[2].value
    /\ MapHas(l1Cache, last.arg[2].key)
    /\ Decoded(MapGet(l1Cache, last.arg[2].key)) = last.arg[2].value
    /\ stats.sets = 2

\* the number of items of items that set can store
Storable(items) ==
    Cardinality({i \in 1..Len(items) : ~setThrows(items[i].value, items[i].options)})

\* C15: every item handed to warmCache is applied by set exactly once: a call
\* that starts a pass has stored each of its items and each queued item (one
\* more set counted per item that set can store) when it returns, a call made
\* during an active pass only appends its items to the queue, and the queue is
\* empty whenever no pass is active
C15_EveryItemApplied ==
    [][/\ ~isWarming' => warmingQueue' = <<>>
       /\ Performs("warmCache") =>
             IF isWarming
             THEN /\ CacheAfter = Cache
                  /\ warmingQueue' = warmingQueue \o last'.arg
             ELSE stats'.sets = stats.sets + Storable(last'.arg \o warmingQueue)]_vars

-----------------------------------------------------------------------------
(* The adapter between requests and the cache *)

\* C16: when get returns a cached payload for the key of a request, the adapter
\* answers the request itself: X-Cache is HIT on the response, the body is that
\* payload, it is emitted once, the route handler is not reached (next() is not
\* called) and set is not called
C16_AdapterHit ==
    [][Performs("request") /\ get(Cache, last'.key, now).ret # JNull =>
        /\ last'.xcache = "HIT"
        /\ last'.body = get(Cache, last'.key, now).ret
        /\ last'.emissions = 1
        /\ pending' = pending
        /\ stats'.sets = stats.sets]_vars

\* C17: when get misses, the adapter lets the request through to the route
\* handler once (next() is called exactly once); when the route handler answers
\* with res.json(p), p is stored by one set under the key of the request and
\* the response carries X-Cache: MISS when p is emitted; and a request of the
\* same key that comes next, before the entry expires, is served p as a HIT,
\* whatever the payload p
C17_AdapterMiss ==
    [][/\ Performs("request") /\ get(Cache, last'.key, now).ret = JNull =>
             /\ Len(pending') = Len(pending) + 1
             /\ last'.emissions = 0
       /\ Performs("json") =>
             /\ stats'.sets = stats.sets + 1
             /\ last'.xcache = "MISS"
             /\ last'.emissions = 1
       /\ last.op = "json" /\ last.emissions = 1 /\ Performs("request")
             /\ last'.key = last.key /\ now - last.at < defaultTTL =>
             /\ last'.xcache = "HIT"
             /\ last'.body = last.body]_vars

\* the steps that emit a response for a request that went through the adapter
EmitsResponse ==
    /\ nops' = nops + 1
    /\ last'.op \in {"request", "json", "send", "error"}
    /\ last'.emissions > 0

-----------------------------------------------------------------------------
(* The adapter and the performance middleware on one response *)

\* how many times wrapper occurs in passes
Passes(passes, wrapper) == Cardinality({i \in 1..Len(passes) : passes[i] = wrapper})

\* whether stack holds the performance middleware
Timed(stack) == \E i \in 1..Len(stack) : stack[i] = "perf"

\* C19: with the performance middleware before or after the adapter, one
\* res.json(p) of the route handler on a miss makes exactly one set(key, p),
\* passes the wrapper of the adapter once and the wrapper of the performance
\* middleware once, so that the response carries X-Cache: MISS and
\* X-Response-Time, and hands p to the transport exactly once
C19_Composition ==
    [][Performs("json") /\ Timed(last'.stack) =>
        /\ stats'.sets = stats.sets + 1
        /\ Passes(last'.passes, "cache") = 1
        /\ last'.xcache = "MISS"
        /\ last'.emissions = 1
        /\ Passes(last'.passes, "perf.json") = 1
        /\ last'.xtime]_vars

-----------------------------------------------------------------------------
(* Entries that do not decode *)

\* whether get(key) at time t finds a live entry marked compressed whose text
\* does not decode
DecodeFails(key, t) ==
    LET l1Live == MapHas(l1Cache, key) /\ ~isExpired(MapGet(l1Cache, key), t)
        l2Live == MapHas(l2Cache, key) /\ ~isExpired(MapGet(l2Cache, key), t)
    IN  /\ l1Live \/ l2Live
        /\ LET item == IF l1Live THEN MapGet(l1Cache, key) ELSE MapGet(l2Cache, key)
           IN  item.compressed /\ ~JSONparses(item.value.str)

\* C20: when decoding fails in get(k) on an entry marked compressed, get
\* returns a miss, k is in neither tier afterwards, and the lookup is counted as
\* a miss: misses grows by one and hits does not
C20_DecodeFailureIsMiss ==
    [][Performs("get") /\ DecodeFails(last'.key, now) =>
        /\ last'.ret = JNull
        /\ ~MapHas(l1Cache', last'.key)
        /\ ~MapHas(l2Cache', last'.key)
        /\ stats'.misses = stats.misses + 1
        /\ stats'.hits = stats.hits]_vars

-----------------------------------------------------------------------------
(* Values that cannot be serialized *)

\* whether JSON.stringify(value).length fails
SerializationFails(value) == value = JUndefined

\* whether map m holds value under key as it is, not compressed
HoldsRaw(m, key, value) ==
    MapHas(m, key) /\ MapGet(m, key).value = value /\ ~MapGet(m, key).compressed

\* C21: a value whose serialization fails does not make set throw: when the
\* route handler answers res.json(v) with such a value, the value is stored as
\* it is with compressed = false, compressions stays, sets grows by one, and
\* the response is emitted with v as it would be without the cache
C21_SetFailureNotPropagated ==
    [][Performs("json") /\ SerializationFails(last'.data) =>
        /\ HoldsRaw(l1Cache', last'.key, last'.data)
              \/ HoldsRaw(l2Cache', last'.key, last'.data)
        /\ stats'.compressions = stats.compressions
        /\ stats'.sets = stats.sets + 1
        /\ last'.emissions = 1
        /\ last'.body = last'.data]_vars

-----------------------------------------------------------------------------
(* Size and statistics *)

\* C22: the number of entries held is bounded by a constant that depends on
\* maxSize only: each tier is bounded by maxSize, so L1 and L2 together never
\* hold more than 2 * maxSize entries
C22_FootprintBounded == Len(l1Cache) + Len(l2Cache) <= 2 * maxSize

\* the hits and the lookups getStats reported on
Lookups == stats.hits + stats.misses

\* C23 as stated: the hit rate getStats reports is hits / (hits + misses) * 100
\* computed from the counters, and 0 when there was no lookup (the rate is read
\* as the number its text writes, in hundredths)
C23_HitRateExact ==
    last.op = "getStats" =>
        IF Lookups = 0 THEN last.cacheHitRate = 0
        ELSE last.cacheHitRate * Lookups = 10000 * stats.hits

\* C23 as the code has it: the hit rate is the text of hits / (hits + misses) *
\* 100 rounded to two decimals, written with both decimals and followed by "%",
\* and the text "0%" when there was no lookup
C23_HitRateRounded ==
    last.op = "getStats" =>
        LET hitRate == last.ret.performance.hitRate
            n == Len(hitRate)
        IN  IF Lookups = 0 THEN hitRate = <<"0", "%">>
            ELSE /\ n >= 5
                 /\ hitRate[n] = "%"
                 /\ hitRate[n - 3] = "."
                 /\ \A i \in 1..(n - 1) : i # n - 3 => IsDigitChar(hitRate[i])
                 /\ 2 * (last.cacheHitRate * Lookups - 10000 * stats.hits) <= Lookups
                 /\ 2 * (10000 * stats.hits - last.cacheHitRate * Lookups) <= Lookups

\* getStats after 2 hits and 1 miss reports "66.67%"
C23_Witness ==
    /\ last.op = "getStats"
    /\ stats.hits = 2
    /\ stats.misses = 1
    /\ last.ret.performance.hitRate = <<"6", "6", ".", "6", "7", "%">>

\* the counters of the statistics
Counters == {"hits", "misses", "sets", "deletes", "compressions", "decompressions"}

\* C24: the counters hits, misses, sets, deletes, compressions and
\* decompressions never decrease in a step of an operation other than clear()
C24_CountersMonotonic ==
    [][nops' = nops + 1 /\ last'.op # "clear" =>
        \A counter \in Counters : stats'[counter] >= stats[counter]]_vars

\* a get has expired an entry that two other operations set and read before:
\* every counter but compressions has grown
C24_Witness ==
    /\ last.op = "get"
    /\ stats.sets = 1
    /\ stats.hits = 1
    /\ stats.misses = 1
    /\ stats.deletes = 1

-----------------------------------------------------------------------------
(* The sweeper *)

\* C25: at most one sweep timer is scheduled at any time, the one cleanupTimer
\* holds: startCleanup() leaves exactly one timer, a new one in place of the
\* old; stopCleanup() leaves none, and called again changes nothing; and no
\* cleanup() pass runs from a timer between stopCleanup() and the next
\* startCleanup()
C25_SweeperLifecycle ==
    [][/\ Cardinality(timers') <= 1
       /\ timers' = {cleanupTimer'[i] : i \in DOMAIN cleanupTimer'}
       /\ Performs("startCleanup") =>
             /\ Cardinality(timers') = 1
             /\ timers' \cap timers = {}
       /\ Performs("stopCleanup") =>
             /\ timers' = {}
             /\ cleanupTimer' = <<>>
             /\ UNCHANGED <<l1Cache, l2Cache, alias, stats>>
             /\ cleanupTimer = <<>> => UNCHANGED timers
       /\ Performs("cleanup") => cleanupTimer # <<>>]_vars

\* a cleanup pass runs from the timer of a startCleanup() that followed a
\* stopCleanup()
C25_Witness ==
    /\ last.op = "cleanup"
    /\ nops = 3
    /\ cleanupTimer = <<3>>
    /\ timers = {3}

-----------------------------------------------------------------------------
(* Concurrent requests *)

\* the pending requests of key
InFlight(key) == {i \in 1..Len(pending) : pending[i].key = key}

\* C26: no single-flight. A request of a key the cache does not hold, made
\* while another request of that key waits for its answer, misses too and
\* reaches the route handler too; and each of the answers res.json(p) of
\* requests of one key that were in flight together stores its p with set, so
\* that the entry of the key is the one of the answer emitted last
C26_NoSingleFlight ==
    [][/\ (/\ Performs("request")
           /\ InFlight(last'.key) # {}
           /\ get(Cache, last'.key, now).ret = JNull) =>
             /\ stats'.misses = stats.misses + 1
             /\ Len(pending') = Len(pending) + 1
             /\ last'.emissions = 0
       /\ (/\ Performs("json")
           /\ \/ Cardinality(InFlight(last'.key)) >= 2
              \/ last.op = "json" /\ last.key = last'.key) =>
             /\ stats'.sets = stats.sets + 1
             /\ get(Cache', last'.key, now).ret = last'.data]_vars

-----------------------------------------------------------------------------
(* Tier selection *)

\* whether item is the entry a set of value at time t makes
Written(item, value, t) ==
    /\ item.createdAt = t
    /\ item.accessCount = 0
    /\ Decoded(item) = value

\* C27: set(k, ...) puts the new entry into L2 exactly when options.level is
\* 'L2' or, after the eviction step, l1Cache.size >= 0.8 * maxSize, and into L1
\* otherwise; the other tier stays as the eviction step left it, and sets
\* grows by exactly 1
C27_TierSelection ==
    [][Performs("set") =>
        LET evicted == IF Len(l1Cache) >= maxSize THEN evictLRU(Cache, now) ELSE Cache
            k == last'.key
            inL2 == \/ last'.arg.options.level = "L2"
                    \/ 10 * Len(evicted.l1) >= 8 * maxSize
        IN  /\ inL2 => /\ MapHas(l2Cache', k)
                        /\ Written(MapGet(l2Cache', k), last'.arg.value, now)
                        /\ l1Cache' = evicted.l1
            /\ ~inL2 => /\ MapHas(l1Cache', k)
                         /\ Written(MapGet(l1Cache', k), last'.arg.value, now)
                         /\ l2Cache' = evicted.l2
            /\ stats'.sets = stats.sets + 1]_vars

-----------------------------------------------------------------------------
(* Promotion *)

\* whether map m holds an entry of key that is unexpired at time t
HoldsLive(m, key, t) == MapHas(m, key) /\ Live(MapGet(m, key), t)

\* C28: get(k) when L1 holds no live entry of k and L2 holds an unexpired one
\* returns the payload of the L2 entry and counts a hit, and afterwards L1 and
\* L2 both hold the entry of k
C28_Promotion ==
    [][(/\ Performs("get")
        /\ ~HoldsLive(l1Cache, last'.key, now)
        /\ HoldsLive(l2Cache, last'.key, now))
       => /\ last'.ret = Decoded(MapGet(l2Cache, last'.key))
          /\ stats'.hits = stats.hits + 1
          /\ stats'.misses = stats.misses
          /\ MapHas(l1Cache', last'.key)
          /\ MapHas(l2Cache', last'.key)
          /\ MapGet(l1Cache', last'.key) = MapGet(l2Cache', last'.key)
          /\ MapGet(l2Cache', last'.key).expiresAt = MapGet(l2Cache, last'.key).expiresAt]_vars

\* a get has just promoted the compressed entry of its key and returned its
\* payload
C28_Witness ==
    /\ last.op = "get"
    /\ last.ret = Value12
    /\ last.key \in alias
    /\ MapHas(l1Cache, last.key)
    /\ MapHas(l2Cache, last.key)
    /\ MapGet(l1Cache, last.key).accessCount = 1

-----------------------------------------------------------------------------
(* Eviction *)

\* whether the step removed the entry of k, one accessed least recently, from
\* L1 and nothing else, and moved it to L2 where L2 had room (where it had
\* none the entry is dropped, and L2 keeps what it held)
EvictedOne(k) ==
    LET item == MapGet(l1Cache, k)
    IN  /\ l1Cache' = MapDelete(l1Cache, k)
        /\ \A j \in 1..Len(l1Cache) : item.lastAccessed <= l1Cache[j].item.lastAccessed
        /\ IF Len(l2Cache) < maxSize
           THEN /\ MapHas(l2Cache', k)
                /\ MapGet(l2Cache', k) = [item EXCEPT !.level = "L2"]
           ELSE /\ ~MapHas(l1Cache', k)
                /\ l2Cache' = l2Cache

\* C29: evictLRU() on a non-empty L1 removes exactly one entry from L1, one
\* whose lastAccessed is minimal; if L2 held fewer than maxSize entries the
\* entry is in L2 afterwards with level 'L2' and otherwise as it was, if not it
\* is in neither tier; on an empty L1 evictLRU() changes nothing
C29_EvictLRU ==
    [][Performs("evictLRU") =>
        IF Len(l1Cache) = 0
        THEN UNCHANGED <<l1Cache, l2Cache, stats>>
        ELSE \E k \in MapKeys(l1Cache) : EvictedOne(k)]_vars

-----------------------------------------------------------------------------
(* The expiry sweep *)

\* the pairs of map m whose expiresAt is not before time t
Unexpired(m, t) == SelectSeq(m, LAMBDA p : ~(p.item.expiresAt < t))

\* C30: after a cleanup() pass at time now no entry with expiresAt < now is
\* left in L1 or in L2, the expiry step removed no unexpired entry, and
\* evictLRU() ran exactly once if L1 held more than 0.9 * maxSize entries after
\* the purge and not at all otherwise
C30_Cleanup ==
    [][Performs("cleanup") =>
        LET purged == [Cache EXCEPT !.l1 = Unexpired(l1Cache, now),
                                    !.l2 = Unexpired(l2Cache, now)]
            after == IF 10 * Len(purged.l1) > 9 * maxSize
                     THEN evictLRU(purged, now)
                     ELSE purged
        IN  /\ \A m \in {l1Cache', l2Cache'} :
                  \A i \in 1..Len(m) : ~(m[i].item.expiresAt < now)
            /\ l1Cache' = after.l1
            /\ l2Cache' = after.l2
            /\ stats' = stats]_vars

\* a cleanup pass has just purged expired entries from both tiers
C30_Witness ==
    /\ last.op = "cleanup"
    /\ stats.sets = 2
    /\ stats.deletes = 0
    /\ l1Cache = <<>>
    /\ l2Cache = <<>>

-----------------------------------------------------------------------------
(* The recurring sweep *)

\* whether a tier holds an entry of key whose expiresAt has passed
HoldsExpired(key) ==
    \E m \in {l1Cache, l2Cache} : MapHas(m, key) /\ MapGet(m, key).expiresAt < now

\* C31: with the sweeper running, an entry whose expiresAt has passed is
\* eventually absent from both tiers, whether or not its key is looked up, set
\* or invalidated again
C31_EventuallySwept == \A k \in Keys :
    (HoldsExpired(k) /\ timers # {}) ~> (~HoldsExpired(k) \/ timers = {})

\* the timer has swept expired entries out of both tiers, no call having
\* touched them
C31_Witness ==
    /\ last.op = "cleanup"
    /\ nops = 2
    /\ stats.sets = 2
    /\ timers # {}
    /\ l1Cache = <<>>
    /\ l2Cache = <<>>

-----------------------------------------------------------------------------
(* What an entry keeps for its life *)

\* an entry as its key, the time it was made and the time it expires
Stamp(p) == <<p.key, p.item.createdAt, p.item.expiresAt>>

\* the entries of the two tiers
Stamps(l1, l2) ==
    {Stamp(l1[i]) : i \in 1..Len(l1)} \cup {Stamp(l2[i]) : i \in 1..Len(l2)}

\* the keys a step of set or warmCache writes
KeysWritten(record) ==
    IF record.op = "set" THEN {record.key}
    ELSE IF record.op = "warmCache"
         THEN {record.arg[i].key : i \in 1..Len(record.arg)}
                 \cup {warmingQueue[i].key : i \in 1..Len(warmingQueue)}
    ELSE {}

\* C32: expiresAt is fixed at insertion. Whatever a step does (a get that
\* hits, a promotion, a demotion by evictLRU, a cleanup), an entry it leaves in
\* a tier was there before with the same expiresAt, unless a set of its key
\* made it anew
C32_ExpiresAtFixed ==
    [][\A s \in Stamps(l1Cache', l2Cache') :
          s[1] \notin KeysWritten(last') \/ nops' = nops => s \in Stamps(l1Cache, l2Cache)]_vars

\* a get has hit and promoted an entry after its insertion, and the entry
\* expires when its insertion said
C32_Witness ==
    /\ last.op = "get"
    /\ last.ret # JNull
    /\ last.key \in alias
    /\ LET item == MapGet(l1Cache, last.key)
       IN  /\ item.lastAccessed > item.createdAt
           /\ item.level = "L2"
           /\ item.expiresAt = item.createdAt + defaultTTL

\* an entry as its key, the time it was made, the time of its last access and
\* the number of its accesses
Access(p) == <<p.key, p.item.createdAt, p.item.lastAccessed, p.item.accessCount>>

Accesses(l1, l2) ==
    {Access(l1[i]) : i \in 1..Len(l1)} \cup {Access(l2[i]) : i \in 1..Len(l2)}

\* the entry a get of key finds: the live one of L1, if not the one of L2
Found(key) ==
    IF HoldsLive(l1Cache, key, now) THEN MapGet(l1Cache, key) ELSE MapGet(l2Cache, key)

\* C33: lastAccessed and accessCount of an entry change only in a get that
\* returns the value of that entry: it sets lastAccessed to the current time
\* and adds exactly 1 to accessCount. Every other entry a step leaves in a tier,
\* unless a set of its key made it anew, was there before with the same
\* lastAccessed and accessCount: a get that misses, an operation on another
\* key, eviction, promotion, sweep and invalidation change neither
C33_AccessOnlyOnHit ==
    [][LET hit == Performs("get") /\ last'.ret # JNull
           accessed == <<last'.key, Found(last'.key).createdAt, now,
                         Found(last'.key).accessCount + 1>>
       IN  /\ \A a \in Accesses(l1Cache', l2Cache') :
                 a[1] \notin KeysWritten(last') \/ nops' = nops =>
                     \/ a \in Accesses(l1Cache, l2Cache)
                     \/ hit /\ a = accessed
           /\ hit => /\ MapHas(l1Cache', last'.key)
                      /\ Access([key |-> last'.key, item |-> MapGet(l1Cache', last'.key)])
                            = accessed]_vars

\* a get has hit an entry a second time, later than the first: the entry counts
\* two accesses and the time of the second
C33_Witness ==
    /\ last.op = "get"
    /\ last.ret # JNull
    /\ last.at > 0
    /\ MapHas(l1Cache, last.key)
    /\ MapGet(l1Cache, last.key).accessCount = 2
    /\ MapGet(l1Cache, last.key).lastAccessed = last.at
    /\ MapGet(l1Cache, last.key).createdAt = 0

\* C34: the level field of every stored entry names the tier that holds it:
\* 'L1' for every entry of l1Cache and 'L2' for every entry of l2Cache
C34_LevelNamesTier ==
    /\ \A i \in 1..Len(l1Cache) : l1Cache[i].item.level = "L1"
    /\ \A i \in 1..Len(l2Cache) : l2Cache[i].item.level = "L2"

-----------------------------------------------------------------------------
(* The time to live *)

\* C35: set computes expiresAt = now + ttl whenever a ttl is given, ttl = 0
\* included, and now + defaultTTL only when no ttl is given: the entry a set
\* has written expires then
C35_ExpiresAt ==
    [][Performs("set") /\ stats'.sets = stats.sets + 1 =>
        \E m \in {l1Cache', l2Cache'} :
            /\ MapHas(m, last'.key)
            /\ Written(MapGet(m, last'.key), last'.arg.value, now)
            /\ MapGet(m, last'.key).expiresAt =
                  now + (IF last'.arg.ttl = <<>> THEN defaultTTL ELSE last'.arg.ttl[1])]_vars

-----------------------------------------------------------------------------
(* The most recent write *)

\* C36: the most recent write wins. A get(k) that hits after set(k, v), no
\* other call made in between and however much time has passed (the entry of
\* v may have expired), returns v, never an older value left in the other tier
C36_MostRecentWriteWins ==
    [][(/\ last.op = "set"
        /\ Performs("get")
        /\ last'.key = last.key
        /\ stats'.hits = stats.hits + 1
        /\ last'.ret # JNull)
       => last'.ret = last.arg.value]_vars

-----------------------------------------------------------------------------
(* Lookups counted *)

-----------------------------------------------------------------------------
(* Invalidation and requests in flight *)

\* whether the call just made removed an entry; every key of SpecInvalidation
\* being KeyAB, the entry was one of that key
Removed ==
    \/ last.op = "delete" /\ last.ret
    \/ last.op \in {"invalidatePattern", "invalidateByTags"} /\ last.ret >= 1

\* C38: invalidation is not undone by a request in flight. When delete,
\* invalidatePattern or invalidateByTags has removed key k while a request of
\* k that missed before waits for its answer, the answer that follows does
\* not put k back into the cache with its payload
C38_InvalidationNotUndone ==
    [][Removed /\ Performs("json") =>
        /\ ~MapHas(l1Cache', last'.key)
        /\ ~MapHas(l2Cache', last'.key)]_vars

-----------------------------------------------------------------------------
(* A warm pass that fails *)

\* C39: a failing item never wedges the warm queue. isWarming is false when
\* warmCache finishes, also when a set inside it threw, so the warmCache call
\* after a failed pass starts a pass of its own: it applies its items (and
\* what the queue holds) with set instead of queueing them, and leaves the
\* queue empty
C39_NoWedge ==
    [][Performs("warmCache") =>
        /\ ~isWarming'
        /\ (last.op = "warmCache" /\ last.threw /\ ~last'.threw) =>
              /\ stats'.sets = stats.sets + Len(last'.arg) + Len(warmingQueue)
              /\ warmingQueue' = <<>>]_vars

\* a pass has failed on its first item, and the call after it has applied its
\* two items
C39_Witness ==
    /\ last.op = "warmCache"
    /\ ~last.threw
    /\ nops = 2
    /\ stats.sets = 2
    /\ ~isWarming
    /\ warmingQueue = <<>>

====
